---------------------------- MODULE Spec2Model ----------------------------
(***************************************************************************)
(* A model of the BusTub buffer pool: the LRU-K replacer                   *)
(* (buffer/lru_k_replacer.cpp), the buffer pool manager                    *)
(* (buffer/buffer_pool_manager.cpp) and the page guards                    *)
(* (storage/page/page_guard.cpp).                                          *)
(*                                                                         *)
(* Every member function is an operator from the object's state (a record  *)
(* whose fields carry the members' names) to the state after the call and  *)
(* the value returned; an action applies one call to the variables.        *)
(***************************************************************************)
EXTENDS Integers, Sequences, FiniteSets, TLC

VARIABLES
  replacer,   \* a stand-alone LRUKReplacer (the replacer's own specification)
  bpm,        \* the BufferPoolManager: pages_, page_table_, free_list_, replacer_, ...
  last,       \* the last call that changed the manager or the replacer
  track,      \* the page followed from a write, through its eviction, to its next fetch
  guards,     \* per thread: the page guards it holds and where it is in a guarded call
  stray       \* whether a FetchPage has succeeded for a page id NewPage had not returned yet

vars == <<replacer, bpm, last, track, guards, stray>>

-----------------------------------------------------------------------------
(* Bounds of the model. *)

NumFrames == 2      \* the stand-alone replacer is built with num_frames = NumFrames
MaxK == 2           \* k_ (replacer_k) is drawn from 1..MaxK
MaxAccesses == 4    \* the stand-alone replacer records at most this many accesses
MaxTimestamp == 3   \* the manager makes at most this many NewPage and FetchPage calls that succeed
MaxPoolSize == 2    \* pool_size is drawn from 1..MaxPoolSize
MaxPageId == 2      \* page ids are 0..MaxPageId: NewPage stops once it has returned MaxPageId
MaxPin == 2         \* FetchPage does not pin a page beyond this pin count
MaxData == 1        \* a page's bytes are one value of 0..MaxData, 0 the zeroed page
NumThreads == 2     \* threads 1..NumThreads hold page guards
GuardPoolSize == 1  \* pool_size of the manager the threads share

(* size_t, narrowed: every timestamp and frame id of the model stays far   *)
(* below it, so only the wrap of a negative frame id and the "+inf"        *)
(* distance reach it, as in the 64-bit build.                              *)
SizeTModulus == 2 ^ 16
SIZE_MAX == SizeTModulus - 1

(* static_cast<size_t>(frame_id) *)
ToSizeT(x) == x % SizeTModulus

Range(s) == {s[i] : i \in DOMAIN s}

(* The orders in which a range-for may visit the keys of an unordered_map. *)
IterOrders(S) ==
  {o \in [1 .. Cardinality(S) -> S] : \A i, j \in 1 .. Cardinality(S) : i # j => o[i] # o[j]}

(* f with key k erased / with key k set to v. *)
MapErase(f, k) == [x \in (DOMAIN f) \ {k} |-> f[x]]
MapPut(f, k, v) == [x \in (DOMAIN f) \cup {k} |-> IF x = k THEN v ELSE f[x]]

-----------------------------------------------------------------------------
(* LRUKReplacer *)

(* LRUKReplacer::LRUKReplacer(num_frames, k) *)
NewReplacer(num_frames, k) ==
  [ node_store_ |-> << >>, current_timestamp_ |-> 0, curr_size_ |-> 0,
    replacer_size_ |-> num_frames, k_ |-> k ]

(* LRUKNode{}: an empty history, not evictable. *)
NewNode == [ history_ |-> << >>, is_evictable_ |-> FALSE, fid_ |-> 0 ]

(* The backward k-distance Evict computes for a node. *)
KDistance(r, node) ==
  IF Len(node.history_) >= r.k_
    THEN (r.current_timestamp_ - Head(node.history_)) % SizeTModulus
    ELSE SIZE_MAX

(* BetterVictim with ties going to the newest first access. *)
BetterVictimNewestFirst(k_distance, node, acc) ==
  \/ k_distance > acc.max_k_distance
  \/ /\ k_distance = acc.max_k_distance
     /\ (~acc.has_value \/ Head(node.history_) > acc.oldest_timestamp)

(* Evict's test for replacing the candidate held in acc by the node. *)
BetterVictim(k_distance, node, acc) ==
  \/ k_distance > acc.max_k_distance
  \/ /\ k_distance = acc.max_k_distance
     /\ Head(node.history_) < acc.oldest_timestamp

(* The loop of Evict over node_store_, visited in the given order. *)
RECURSIVE EvictScan(_, _, _)
EvictScan(r, order, acc) ==
  IF order = << >> THEN acc
  ELSE LET frame_id == Head(order)
           node == r.node_store_[frame_id]
           k_distance == KDistance(r, node)
       IN  IF ~node.is_evictable_
             THEN EvictScan(r, Tail(order), acc)
           ELSE IF BetterVictim(k_distance, node, acc)
             THEN EvictScan(r, Tail(order),
                            [ has_value |-> TRUE, victim |-> frame_id,
                              max_k_distance |-> k_distance,
                              oldest_timestamp |-> Head(node.history_) ])
           ELSE EvictScan(r, Tail(order), acc)

(* LRUKReplacer::Evict: [ok, frame_id, r] *)
Evict(r, order) ==
  LET acc == EvictScan(r, order,
                       [ has_value |-> FALSE, victim |-> -1,
                         max_k_distance |-> 0, oldest_timestamp |-> SIZE_MAX ])
  IN  IF acc.has_value
        THEN [ ok |-> TRUE, frame_id |-> acc.victim,
               r |-> [r EXCEPT !.node_store_ = MapErase(@, acc.victim),
                               !.curr_size_ = (@ - 1) % SizeTModulus] ]
        ELSE [ ok |-> FALSE, frame_id |-> -1, r |-> r ]

(* The range check that opens RecordAccess, SetEvictable and Remove. *)
InvalidFrameId(r, frame_id) == ToSizeT(frame_id) > r.replacer_size_

(* RecordAccess that never drops the oldest timestamp of a full history. *)
RecordAccessKeepsAll(r, frame_id) ==
  IF InvalidFrameId(r, frame_id) THEN [ thrown |-> "Invalid frame id", r |-> r ]
  ELSE LET ts == r.current_timestamp_ + 1
           old == IF frame_id \in DOMAIN r.node_store_
                    THEN r.node_store_[frame_id] ELSE NewNode
       IN  [ thrown |-> "",
             r |-> [r EXCEPT !.current_timestamp_ = ts,
                             !.node_store_ =
                               MapPut(@, frame_id,
                                      [ history_ |-> Append(old.history_, ts),
                                        is_evictable_ |-> old.is_evictable_,
                                        fid_ |-> frame_id ])] ]

(* LRUKReplacer::RecordAccess: [thrown, r] *)
RecordAccess(r, frame_id) ==
  IF InvalidFrameId(r, frame_id) THEN [ thrown |-> "Invalid frame id", r |-> r ]
  ELSE LET ts == r.current_timestamp_ + 1
           old == IF frame_id \in DOMAIN r.node_store_
                    THEN r.node_store_[frame_id] ELSE NewNode
           pushed == Append(old.history_, ts)
           hist == IF Len(pushed) > r.k_ THEN Tail(pushed) ELSE pushed
       IN  [ thrown |-> "",
             r |-> [r EXCEPT !.current_timestamp_ = ts,
                             !.node_store_ =
                               MapPut(@, frame_id,
                                      [ history_ |-> hist,
                                        is_evictable_ |-> old.is_evictable_,
                                        fid_ |-> frame_id ])] ]

(* SetEvictable that adjusts curr_size_ whether or not the flag changes. *)
SetEvictableAlwaysCounts(r, frame_id, set_evictable) ==
  IF InvalidFrameId(r, frame_id) THEN [ thrown |-> "Invalid frame id", r |-> r ]
  ELSE IF frame_id \notin DOMAIN r.node_store_ THEN [ thrown |-> "", r |-> r ]
  ELSE [ thrown |-> "",
         r |-> [r EXCEPT !.node_store_[frame_id].is_evictable_ = set_evictable,
                         !.curr_size_ =
                           (@ + (IF set_evictable THEN 1 ELSE -1)) % SizeTModulus] ]

(* LRUKReplacer::SetEvictable: [thrown, r] *)
SetEvictable(r, frame_id, set_evictable) ==
  IF InvalidFrameId(r, frame_id) THEN [ thrown |-> "Invalid frame id", r |-> r ]
  ELSE IF frame_id \notin DOMAIN r.node_store_ THEN [ thrown |-> "", r |-> r ]
  ELSE IF r.node_store_[frame_id].is_evictable_ # set_evictable
    THEN [ thrown |-> "",
           r |-> [r EXCEPT !.node_store_[frame_id].is_evictable_ = set_evictable,
                           !.curr_size_ =
                             (@ + (IF set_evictable THEN 1 ELSE -1)) % SizeTModulus] ]
  ELSE [ thrown |-> "", r |-> r ]

(* LRUKReplacer::Remove: [thrown, r] *)
Remove(r, frame_id) ==
  IF InvalidFrameId(r, frame_id) THEN [ thrown |-> "Invalid frame id", r |-> r ]
  ELSE IF frame_id \in DOMAIN r.node_store_
    THEN IF ~r.node_store_[frame_id].is_evictable_
           THEN [ thrown |-> "Attempt to remove a non-evictable frame", r |-> r ]
           ELSE [ thrown |-> "",
                  r |-> [r EXCEPT !.node_store_ = MapErase(@, frame_id),
                                  !.curr_size_ = (@ - 1) % SizeTModulus] ]
  ELSE [ thrown |-> "", r |-> r ]

(* LRUKReplacer::Size *)
Size(r) == r.curr_size_

-----------------------------------------------------------------------------
(* BufferPoolManager *)

INVALID_PAGE_ID == -1

(* A Page as constructed: no page, no pin, clean, zeroed, latch free.      *)
(* rwlatch_ holds the thread that owns it for writing (0: none) and the    *)
(* threads that own it for reading.                                        *)
NewPageObject ==
  [ page_id_ |-> INVALID_PAGE_ID, pin_count_ |-> 0, is_dirty_ |-> FALSE, data_ |-> 0,
    rwlatch_ |-> [ writer |-> 0, readers |-> {} ] ]

(* BufferPoolManager::BufferPoolManager. disk is what the disk manager     *)
(* holds for each page id, zeroes until the page is written; latch_ is the *)
(* manager's mutex.                                                        *)
NewBufferPoolManager(pool_size, replacer_k) ==
  [ pool_size_ |-> pool_size,
    pages_ |-> [f \in 0 .. (pool_size - 1) |-> NewPageObject],
    replacer_ |-> NewReplacer(pool_size, replacer_k),
    free_list_ |-> [i \in 1 .. pool_size |-> i - 1],
    page_table_ |-> << >>,
    next_page_id_ |-> 0,
    disk |-> [p \in 0 .. MaxPageId |-> 0],
    latch_ |-> "free" ]

(* BufferPoolManager::WriteFrame: the frame's bytes go to disk as page_id. *)
WriteFrame(b, frame_id, page_id) ==
  [b EXCEPT !.disk[page_id] = b.pages_[frame_id].data_]

(* BufferPoolManager::ReadFrame: the frame's bytes become what the disk    *)
(* holds for page_id.                                                      *)
ReadFrame(b, frame_id, page_id) ==
  [b EXCEPT !.pages_[frame_id].data_ = b.disk[page_id]]

(* EvictVictim that never writes the victim's bytes out. *)
EvictVictimNoWrite(b, r, frame_id) ==
  [b EXCEPT !.replacer_ = r,
            !.page_table_ = MapErase(@, b.pages_[frame_id].page_id_)]

(* EvictVictim that leaves the victim's page-table entry in place. *)
EvictVictimKeepsEntry(b, r, frame_id) ==
  LET kept == [b EXCEPT !.replacer_ = r]
  IN  IF b.pages_[frame_id].is_dirty_
        THEN WriteFrame(kept, frame_id, b.pages_[frame_id].page_id_)
        ELSE kept

(* What NewPage and FetchPage do with the frame Evict handed them: erase   *)
(* the page-table entry of the page it held, write that page if dirty.     *)
EvictVictim(b, r, frame_id) ==
  LET old_page_id == b.pages_[frame_id].page_id_
      erased == [b EXCEPT !.replacer_ = r,
                          !.page_table_ = MapErase(@, old_page_id)]
  IN  IF b.pages_[frame_id].is_dirty_
        THEN WriteFrame(erased, frame_id, old_page_id)
        ELSE erased

(* TakeFrame that leaves the frame it takes on the free list. *)
TakeFrameKeepsFreeList(b, order) ==
  IF b.free_list_ # << >>
    THEN [ ok |-> TRUE, frame_id |-> Head(b.free_list_), b |-> b ]
  ELSE LET ev == Evict(b.replacer_, order)
       IN  IF ~ev.ok THEN [ ok |-> FALSE, frame_id |-> -1, b |-> b ]
           ELSE [ ok |-> TRUE, frame_id |-> ev.frame_id,
                  b |-> EvictVictim(b, ev.r, ev.frame_id) ]

(* The frame NewPage and FetchPage (on a miss) get: the head of the free   *)
(* list, else the replacer's victim; [ok, frame_id, b].                    *)
TakeFrame(b, order) ==
  IF b.free_list_ # << >>
    THEN [ ok |-> TRUE, frame_id |-> Head(b.free_list_),
           b |-> [b EXCEPT !.free_list_ = Tail(@)] ]
  ELSE LET ev == Evict(b.replacer_, order)
       IN  IF ~ev.ok THEN [ ok |-> FALSE, frame_id |-> -1, b |-> b ]
           ELSE [ ok |-> TRUE, frame_id |-> ev.frame_id,
                  b |-> EvictVictim(b, ev.r, ev.frame_id) ]

(* BufferPoolManager::AllocatePage: [page_id, b] *)
AllocatePage(b) ==
  [ page_id |-> b.next_page_id_, b |-> [b EXCEPT !.next_page_id_ = @ + 1] ]

(* NewPage with the page id allocated before a frame is looked for. *)
NewPageAllocatesFirst(b, order) ==
  LET alloc == AllocatePage(b)
      got == TakeFrame(alloc.b, order)
  IN  IF ~got.ok
        THEN [ ok |-> FALSE, frame_id |-> -1, page_id |-> INVALID_PAGE_ID, b |-> alloc.b ]
      ELSE LET frame_id == got.frame_id
               page_id == alloc.page_id
               installed ==
                 [got.b EXCEPT
                    !.pages_[frame_id] = [@ EXCEPT !.data_ = 0,
                                                   !.page_id_ = page_id,
                                                   !.pin_count_ = 1,
                                                   !.is_dirty_ = FALSE],
                    !.page_table_ = MapPut(@, page_id, frame_id)]
               r1 == SetEvictable(installed.replacer_, frame_id, FALSE).r
               r2 == RecordAccess(r1, frame_id).r
           IN  [ ok |-> TRUE, frame_id |-> frame_id, page_id |-> page_id,
                 b |-> [installed EXCEPT !.replacer_ = r2] ]

(* BufferPoolManager::NewPage: [ok, frame_id, page_id, b]; ok is FALSE for *)
(* a nullptr result, frame_id is the frame of the Page returned.           *)
NewPage(b, order) ==
  LET got == TakeFrame(b, order)
  IN  IF ~got.ok
        THEN [ ok |-> FALSE, frame_id |-> -1, page_id |-> INVALID_PAGE_ID, b |-> b ]
      ELSE LET frame_id == got.frame_id
               alloc == AllocatePage(got.b)
               page_id == alloc.page_id
               installed ==
                 [alloc.b EXCEPT
                    !.pages_[frame_id] = [@ EXCEPT !.data_ = 0,
                                                   !.page_id_ = page_id,
                                                   !.pin_count_ = 1,
                                                   !.is_dirty_ = FALSE],
                    !.page_table_ = MapPut(@, page_id, frame_id)]
               r1 == SetEvictable(installed.replacer_, frame_id, FALSE).r
               r2 == RecordAccess(r1, frame_id).r
           IN  [ ok |-> TRUE, frame_id |-> frame_id, page_id |-> page_id,
                 b |-> [installed EXCEPT !.replacer_ = r2] ]

(* FetchPage when the page is in the page table. *)
FetchResident(b, page_id) ==
  LET frame_id == b.page_table_[page_id]
      r1 == IF b.pages_[frame_id].pin_count_ = 0
              THEN SetEvictable(b.replacer_, frame_id, FALSE).r
              ELSE b.replacer_
      r2 == RecordAccess(r1, frame_id).r
  IN  [ ok |-> TRUE, frame_id |-> frame_id,
        b |-> [b EXCEPT !.pages_[frame_id].pin_count_ = @ + 1,
                        !.replacer_ = r2] ]

(* BufferPoolManager::FetchPage: [ok, frame_id, b] *)
FetchPage(b, page_id, order) ==
  IF page_id \in DOMAIN b.page_table_ THEN FetchResident(b, page_id)
  ELSE LET got == TakeFrame(b, order)
       IN  IF ~got.ok THEN [ ok |-> FALSE, frame_id |-> -1, b |-> b ]
           ELSE LET frame_id == got.frame_id
                    reset == [got.b EXCEPT !.pages_[frame_id].data_ = 0]
                    read == ReadFrame(reset, frame_id, page_id)
                    installed ==
                      [read EXCEPT
                         !.page_table_ = MapPut(@, page_id, frame_id),
                         !.pages_[frame_id] = [@ EXCEPT !.page_id_ = page_id,
                                                        !.pin_count_ = 1,
                                                        !.is_dirty_ = FALSE]]
                    r1 == RecordAccess(installed.replacer_, frame_id).r
                    r2 == SetEvictable(r1, frame_id, FALSE).r
                IN  [ ok |-> TRUE, frame_id |-> frame_id,
                      b |-> [installed EXCEPT !.replacer_ = r2] ]

(* UnpinPage marking the frame evictable on every unpin, whatever pin     *)
(* count is left.                                                          *)
UnpinPageAlwaysEvictable(b, page_id, is_dirty) ==
  IF page_id \notin DOMAIN b.page_table_ THEN [ ret |-> FALSE, b |-> b ]
  ELSE LET frame_id == b.page_table_[page_id]
           page == b.pages_[frame_id]
       IN  IF page.pin_count_ <= 0 THEN [ ret |-> FALSE, b |-> b ]
           ELSE [ ret |-> TRUE,
                  b |-> [b EXCEPT !.pages_[frame_id] =
                                    [@ EXCEPT !.is_dirty_ = is_dirty \/ page.is_dirty_,
                                              !.pin_count_ = page.pin_count_ - 1],
                                  !.replacer_ = SetEvictable(@, frame_id, TRUE).r] ]

(* UnpinPage without the test of the pin count. *)
UnpinPageUnchecked(b, page_id, is_dirty) ==
  IF page_id \notin DOMAIN b.page_table_ THEN [ ret |-> FALSE, b |-> b ]
  ELSE LET frame_id == b.page_table_[page_id]
           page == b.pages_[frame_id]
           unpinned ==
             [b EXCEPT !.pages_[frame_id] =
                         [@ EXCEPT !.is_dirty_ = is_dirty \/ page.is_dirty_,
                                   !.pin_count_ = page.pin_count_ - 1]]
       IN  [ ret |-> TRUE,
             b |-> IF unpinned.pages_[frame_id].pin_count_ = 0
                     THEN [unpinned EXCEPT !.replacer_ =
                             SetEvictable(@, frame_id, TRUE).r]
                     ELSE unpinned ]

(* UnpinPage storing the hint in is_dirty_ instead of or-ing it in. *)
UnpinPageOverwritesDirty(b, page_id, is_dirty) ==
  IF page_id \notin DOMAIN b.page_table_ THEN [ ret |-> FALSE, b |-> b ]
  ELSE LET frame_id == b.page_table_[page_id]
           page == b.pages_[frame_id]
       IN  IF page.pin_count_ <= 0 THEN [ ret |-> FALSE, b |-> b ]
           ELSE LET unpinned ==
                      [b EXCEPT !.pages_[frame_id] =
                                  [@ EXCEPT !.is_dirty_ = is_dirty,
                                            !.pin_count_ = page.pin_count_ - 1]]
                IN  [ ret |-> TRUE,
                      b |-> IF unpinned.pages_[frame_id].pin_count_ = 0
                              THEN [unpinned EXCEPT !.replacer_ =
                                      SetEvictable(@, frame_id, TRUE).r]
                              ELSE unpinned ]

(* UnpinPage that never tells the replacer. *)
UnpinPageNeverEvictable(b, page_id, is_dirty) ==
  IF page_id \notin DOMAIN b.page_table_ THEN [ ret |-> FALSE, b |-> b ]
  ELSE LET frame_id == b.page_table_[page_id]
           page == b.pages_[frame_id]
       IN  IF page.pin_count_ <= 0 THEN [ ret |-> FALSE, b |-> b ]
           ELSE [ ret |-> TRUE,
                  b |-> [b EXCEPT !.pages_[frame_id] =
                                    [@ EXCEPT !.is_dirty_ = is_dirty \/ page.is_dirty_,
                                              !.pin_count_ = page.pin_count_ - 1]] ]

(* BufferPoolManager::UnpinPage: [ret, b] *)
UnpinPage(b, page_id, is_dirty) ==
  IF page_id \notin DOMAIN b.page_table_ THEN [ ret |-> FALSE, b |-> b ]
  ELSE LET frame_id == b.page_table_[page_id]
           page == b.pages_[frame_id]
       IN  IF page.pin_count_ <= 0 THEN [ ret |-> FALSE, b |-> b ]
           ELSE LET unpinned ==
                      [b EXCEPT !.pages_[frame_id] =
                                  [@ EXCEPT !.is_dirty_ = is_dirty \/ page.is_dirty_,
                                            !.pin_count_ = page.pin_count_ - 1]]
                IN  [ ret |-> TRUE,
                      b |-> IF unpinned.pages_[frame_id].pin_count_ = 0
                              THEN [unpinned EXCEPT !.replacer_ =
                                      SetEvictable(@, frame_id, TRUE).r]
                              ELSE unpinned ]

(* FlushPage that writes the frame only when it is dirty. *)
FlushPageOnlyDirty(b, page_id) ==
  IF page_id \notin DOMAIN b.page_table_ THEN [ ret |-> FALSE, b |-> b ]
  ELSE LET frame_id == b.page_table_[page_id]
           written == IF b.pages_[frame_id].is_dirty_
                        THEN WriteFrame(b, frame_id, page_id) ELSE b
       IN  [ ret |-> TRUE, b |-> [written EXCEPT !.pages_[frame_id].is_dirty_ = FALSE] ]

(* BufferPoolManager::FlushPage: [ret, b] *)
FlushPage(b, page_id) ==
  IF page_id \notin DOMAIN b.page_table_ THEN [ ret |-> FALSE, b |-> b ]
  ELSE LET frame_id == b.page_table_[page_id]
           written == WriteFrame(b, frame_id, page_id)
       IN  [ ret |-> TRUE, b |-> [written EXCEPT !.pages_[frame_id].is_dirty_ = FALSE] ]

(* What locking latch_ may do to a thread that already owns it: the lock   *)
(* of a std::mutex by its owner is undefined; it blocks for ever, or the   *)
(* library detects it and throws std::system_error.                        *)
RelockOutcomes == {"deadlock", "system_error"}

(* BufferPoolManager::FlushAllPages: [ret, b]. It locks latch_ and calls   *)
(* FlushPage for the first page-table entry, and FlushPage locks latch_.   *)
(* ret is "returned", "blocked" (the thread never returns and never gives  *)
(* latch_ back) or "thrown".                                               *)
FlushAllPages(b, relock) ==
  IF DOMAIN b.page_table_ = {} THEN [ ret |-> "returned", b |-> b ]
  ELSE IF relock = "deadlock"
    THEN [ ret |-> "blocked", b |-> [b EXCEPT !.latch_ = "held"] ]
  ELSE [ ret |-> "thrown", b |-> b ]

(* DeletePage that does not hand the frame back to the free list. *)
DeletePageKeepsFrame(b, page_id) ==
  IF page_id \notin DOMAIN b.page_table_ THEN [ ret |-> TRUE, thrown |-> "", b |-> b ]
  ELSE LET frame_id == b.page_table_[page_id]
           removed == Remove(b.replacer_, frame_id)
       IN  IF b.pages_[frame_id].pin_count_ > 0
             THEN [ ret |-> FALSE, thrown |-> "", b |-> b ]
           ELSE IF removed.thrown # ""
             THEN [ ret |-> FALSE, thrown |-> removed.thrown, b |-> b ]
           ELSE [ ret |-> TRUE, thrown |-> "",
                  b |-> [b EXCEPT
                           !.replacer_ = removed.r,
                           !.page_table_ = MapErase(@, page_id),
                           !.pages_[frame_id] = [@ EXCEPT !.data_ = 0,
                                                          !.page_id_ = INVALID_PAGE_ID,
                                                          !.is_dirty_ = FALSE]] ]

(* BufferPoolManager::DeletePage: [ret, thrown, b] *)
DeletePage(b, page_id) ==
  IF page_id \notin DOMAIN b.page_table_ THEN [ ret |-> TRUE, thrown |-> "", b |-> b ]
  ELSE LET frame_id == b.page_table_[page_id]
           removed == Remove(b.replacer_, frame_id)
       IN  IF b.pages_[frame_id].pin_count_ > 0
             THEN [ ret |-> FALSE, thrown |-> "", b |-> b ]
           ELSE IF removed.thrown # ""
             THEN [ ret |-> FALSE, thrown |-> removed.thrown, b |-> b ]
           ELSE [ ret |-> TRUE, thrown |-> "",
                  b |-> [b EXCEPT
                           !.replacer_ = removed.r,
                           !.page_table_ = MapErase(@, page_id),
                           !.pages_[frame_id] = [@ EXCEPT !.data_ = 0,
                                                          !.page_id_ = INVALID_PAGE_ID,
                                                          !.is_dirty_ = FALSE],
                           !.free_list_ = Append(@, frame_id)] ]

-----------------------------------------------------------------------------
(* Page guards (page_guard.cpp). A guard's page_ is the frame it points    *)
(* to, as a one-element sequence, or nullptr; bpm_ is whether it points to *)
(* the manager.                                                            *)

nullptr == << >>

(* A default-constructed guard: bpm_ and page_ null, is_dirty_ false. *)
BasicPageGuard == [ bpm_ |-> FALSE, page_ |-> nullptr, is_dirty_ |-> FALSE ]

(* BasicPageGuard{this, page}. *)
BasicPageGuardOf(frame_id) ==
  [ bpm_ |-> TRUE, page_ |-> <<frame_id>>, is_dirty_ |-> FALSE ]

(* The test Drop, UpgradeRead and UpgradeWrite begin with. *)
IsEmpty(g) == ~g.bpm_ \/ g.page_ = nullptr

Nulled(g) == [g EXCEPT !.bpm_ = FALSE, !.page_ = nullptr]

(* BasicPageGuard(BasicPageGuard &&that): the new guard keeps its default  *)
(* members; that loses its pointers.                                       *)
BasicMoveConstruct(that) == [ this |-> BasicPageGuard, that |-> Nulled(that) ]

(* Drop that leaves the guard's pointers as they were. *)
BasicDropKeepsPointers(b, g) ==
  IF IsEmpty(g) THEN [ g |-> g, b |-> b ]
  ELSE [ g |-> g,
         b |-> UnpinPage(b, b.pages_[g.page_[1]].page_id_, g.is_dirty_).b ]

(* BasicPageGuard::Drop. *)
BasicDrop(b, g) ==
  IF IsEmpty(g) THEN [ g |-> g, b |-> b ]
  ELSE [ g |-> Nulled(g),
         b |-> UnpinPage(b, b.pages_[g.page_[1]].page_id_, g.is_dirty_).b ]

(* BasicPageGuard::operator=(BasicPageGuard &&that), this and that being   *)
(* two guards.                                                             *)
BasicMoveAssign(b, this, that) ==
  [ this |-> [ bpm_ |-> that.bpm_, page_ |-> that.page_, is_dirty_ |-> that.is_dirty_ ],
    that |-> Nulled(that),
    b |-> BasicDrop(b, this).b ]

(* The page's reader-writer latch, taken and released by thread t. *)
Owns(b, frame_id, t) ==
  \/ b.pages_[frame_id].rwlatch_.writer = t
  \/ t \in b.pages_[frame_id].rwlatch_.readers
CanRLatch(b, frame_id) == b.pages_[frame_id].rwlatch_.writer = 0
CanWLatch(b, frame_id) ==
  /\ b.pages_[frame_id].rwlatch_.writer = 0
  /\ b.pages_[frame_id].rwlatch_.readers = {}
RLatch(b, frame_id, t) == [b EXCEPT !.pages_[frame_id].rwlatch_.readers = @ \cup {t}]
WLatch(b, frame_id, t) == [b EXCEPT !.pages_[frame_id].rwlatch_.writer = t]
RUnlatch(b, frame_id, t) == [b EXCEPT !.pages_[frame_id].rwlatch_.readers = @ \ {t}]
WUnlatch(b, frame_id, t) == [b EXCEPT !.pages_[frame_id].rwlatch_.writer = 0]

(* A thread that latches a page whose latch it owns already: it waits for  *)
(* itself, or the library lets it through.                                 *)
RelatchOutcomes == {"deadlock", "acquired"}

(* ReadPageGuard{bpm, page} and WritePageGuard{bpm, page}: the body is     *)
(* empty, guard_ stays default-constructed.                                *)
ReadPageGuardOf(frame_id) == BasicPageGuard
WritePageGuardOf(frame_id) == BasicPageGuard

(* ReadPageGuard::Drop and WritePageGuard::Drop, on the guard_ member g. *)
ReadDrop(b, g, t) ==
  IF IsEmpty(g) THEN [ g |-> g, b |-> b ]
  ELSE BasicDrop(RUnlatch(b, g.page_[1], t), g)

WriteDrop(b, g, t) ==
  IF IsEmpty(g) THEN [ g |-> g, b |-> b ]
  ELSE BasicDrop(WUnlatch(b, g.page_[1], t), g)

(* Drop of a guard of the given kind. *)
Drop(kind, b, g, t) ==
  CASE kind = "read" -> ReadDrop(b, g, t)
    [] kind = "write" -> WriteDrop(b, g, t)
    [] OTHER -> BasicDrop(b, g)

(* Move construction: the defaulted ones of the read and write guards move *)
(* guard_ with BasicPageGuard's.                                           *)
MoveConstruct(kind, that) == BasicMoveConstruct(that)

(* Move assignment: the read and write guards Drop, then move-assign       *)
(* guard_.                                                                 *)
MoveAssign(kind, b, this, that, t) ==
  LET dropped == Drop(kind, b, this, t)
  IN  IF kind = "basic" THEN BasicMoveAssign(b, this, that)
      ELSE BasicMoveAssign(dropped.b, dropped.g, that)

-----------------------------------------------------------------------------
(* The replacer on its own: any sequence of calls, with any frame id from  *)
(* one below the range to one past its end.                                *)

NoBpm == [ pool_size_ |-> 0 ]
NoTrack == [ phase |-> "none" ]
NoCall == [ op |-> "" ]
NoGuards == << >>

FrameArgs == -1 .. (replacer.replacer_size_ + 1)

ReplacerInit ==
  /\ \E k \in 1 .. MaxK : replacer = NewReplacer(NumFrames, k)
  /\ bpm = NoBpm
  /\ last = NoCall
  /\ track = NoTrack
  /\ guards = NoGuards
  /\ stray = FALSE

ReplacerRecordAccess ==
  \E frame_id \in FrameArgs :
    LET res == RecordAccess(replacer, frame_id)
    IN  /\ res.thrown # "" \/ replacer.current_timestamp_ < MaxAccesses
        /\ replacer' = res.r
        /\ last' = IF res.r = replacer THEN last ELSE [ op |-> "RecordAccess" ]
        /\ UNCHANGED <<bpm, track, guards, stray>>

ReplacerSetEvictable ==
  \E frame_id \in FrameArgs, set_evictable \in BOOLEAN :
    LET res == SetEvictable(replacer, frame_id, set_evictable)
    IN  /\ replacer' = res.r
        /\ last' = IF res.r = replacer THEN last ELSE [ op |-> "SetEvictable" ]
        /\ UNCHANGED <<bpm, track, guards, stray>>

ReplacerRemove ==
  \E frame_id \in FrameArgs :
    LET res == Remove(replacer, frame_id)
    IN  /\ replacer' = res.r
        /\ last' = IF res.r = replacer THEN last ELSE [ op |-> "Remove" ]
        /\ UNCHANGED <<bpm, track, guards, stray>>

ReplacerEvict ==
  \E order \in IterOrders(DOMAIN replacer.node_store_) :
    LET res == Evict(replacer, order)
    IN  /\ replacer' = res.r
        /\ last' = IF res.r = replacer THEN last
                   ELSE [ op |-> "Evict", frame_id |-> res.frame_id,
                          node |-> replacer.node_store_[res.frame_id] ]
        /\ UNCHANGED <<bpm, track, guards, stray>>

ReplacerNext ==
  \/ ReplacerRecordAccess
  \/ ReplacerSetEvictable
  \/ ReplacerRemove
  \/ ReplacerEvict

ReplacerSpec == ReplacerInit /\ [][ReplacerNext]_vars

-----------------------------------------------------------------------------
(* Properties of the replacer. *)

Nodes == replacer.node_store_
Evictable == {f \in DOMAIN Nodes : Nodes[f].is_evictable_}
Orders == IterOrders(DOMAIN Nodes)

(* The selection rule, said without the scan: a node with fewer than k_    *)
(* accesses has an infinite backward k-distance, any other the age of its  *)
(* oldest kept access.                                                     *)
Infinite(n) == Len(n.history_) < replacer.k_
Age(n) == replacer.current_timestamp_ - n.history_[1]
Precedes(v, u) ==
  \/ Infinite(v) /\ ~Infinite(u)
  \/ Infinite(v) /\ Infinite(u) /\ v.history_[1] < u.history_[1]
  \/ /\ ~Infinite(v) /\ ~Infinite(u)
     /\ \/ Age(v) > Age(u)
        \/ Age(v) = Age(u) /\ v.history_[1] < u.history_[1]

(* C5: in every reachable state of the replacer, for every k_ and every    *)
(* order of the scan, Evict returns the evictable node of maximal backward *)
(* k-distance (infinite with fewer than k_ accesses), ties going to the    *)
(* smallest history front, so a node with fewer than k_ accesses goes      *)
(* before any node with k_; it erases that node and takes one off          *)
(* curr_size_; with no evictable node it returns empty and changes nothing.*)
EvictPicksMaxKDistance ==
  \A order \in Orders :
    LET res == Evict(replacer, order)
    IN  IF Evictable = {}
          THEN ~res.ok /\ res.r = replacer
          ELSE /\ res.ok
               /\ res.frame_id \in Evictable
               /\ \A u \in Evictable \ {res.frame_id} :
                    Precedes(Nodes[res.frame_id], Nodes[u])
               /\ res.r = [replacer EXCEPT
                             !.node_store_ = MapErase(@, res.frame_id),
                             !.curr_size_ = @ - 1]

(* Evict has just taken a node with fewer than k_ accesses although an     *)
(* evictable node with k_ accesses and an older first access was there,    *)
(* and still is.                                                           *)
EvictedUnderKBeforeFull ==
  /\ last.op = "Evict"
  /\ Len(last.node.history_) < replacer.k_
  /\ \E u \in Evictable :
       /\ Len(Nodes[u].history_) = replacer.k_
       /\ Nodes[u].history_[1] < last.node.history_[1]

(* C6: RecordAccess, SetEvictable and Remove fail with "Invalid frame id"  *)
(* for every frame id outside [0, replacer_size_), the id replacer_size_   *)
(* and the negative ones included, and the failing call changes nothing.   *)
OutOfRangeFrameFails ==
  \A frame_id \in FrameArgs \ (0 .. (replacer.replacer_size_ - 1)) :
    /\ RecordAccess(replacer, frame_id) = [ thrown |-> "Invalid frame id", r |-> replacer ]
    /\ Remove(replacer, frame_id) = [ thrown |-> "Invalid frame id", r |-> replacer ]
    /\ \A set_evictable \in BOOLEAN :
         SetEvictable(replacer, frame_id, set_evictable)
           = [ thrown |-> "Invalid frame id", r |-> replacer ]

(* C17: Size() is the number of nodes with is_evictable_ set. SetEvictable *)
(* changes curr_size_, by one, only when it changes the flag of a node,    *)
(* and changes nothing for a frame without a node; Evict, when it finds a  *)
(* victim, and Remove, when it removes a node, take exactly one off.       *)
SizeCountsEvictable ==
  /\ Size(replacer) = Cardinality(Evictable)
  /\ \A frame_id \in FrameArgs, set_evictable \in BOOLEAN :
       LET res == SetEvictable(replacer, frame_id, set_evictable)
       IN  IF frame_id \notin DOMAIN Nodes THEN res.r = replacer
           ELSE IF Nodes[frame_id].is_evictable_ = set_evictable THEN res.r = replacer
           ELSE /\ res.r.node_store_[frame_id].is_evictable_ = set_evictable
                /\ Size(res.r) = Size(replacer) + (IF set_evictable THEN 1 ELSE -1)
  /\ \A order \in Orders :
       LET res == Evict(replacer, order)
       IN  res.ok => Size(res.r) = Size(replacer) - 1
  /\ \A frame_id \in FrameArgs :
       LET res == Remove(replacer, frame_id)
       IN  IF frame_id \in DOMAIN Nodes /\ res.thrown = ""
             THEN /\ frame_id \notin DOMAIN res.r.node_store_
                  /\ Size(res.r) = Size(replacer) - 1
           ELSE res.r = replacer

(* Remove has just taken one of two evictable nodes, beside a node that is *)
(* not evictable: Size() is 1 with two nodes left.                         *)
OneEvictableLeft ==
  /\ last.op = "Remove"
  /\ Size(replacer) = 1
  /\ Cardinality(DOMAIN Nodes) = 2
  /\ \A frame_id \in DOMAIN Nodes \ Evictable :
       SetEvictable(replacer, frame_id, FALSE).r = replacer

-----------------------------------------------------------------------------
(* Seed scenario S1: a replacer of 7 frames with k = 2; RecordAccess on    *)
(* AccessSeq in order; SetEvictable(true) on frames 1..6, each at any time *)
(* once the frame has a node; then Evict until nothing is evictable. last  *)
(* holds the frames evicted so far.                                        *)

AccessSeq == <<1, 2, 3, 4, 5, 6, 1, 2, 3, 4, 5, 6, 1>>
ScenarioFrames == Range(AccessSeq)

ScenarioInit ==
  /\ replacer = NewReplacer(7, 2)
  /\ bpm = NoBpm
  /\ last = [ op |-> "S1", evicted |-> << >> ]
  /\ track = NoTrack
  /\ guards = NoGuards
  /\ stray = FALSE

ScenarioRecordAccess ==
  /\ replacer.current_timestamp_ < Len(AccessSeq)
  /\ replacer' = RecordAccess(replacer, AccessSeq[replacer.current_timestamp_ + 1]).r
  /\ UNCHANGED <<bpm, last, track, guards, stray>>

ScenarioSetEvictable ==
  /\ \E frame_id \in ScenarioFrames \cap DOMAIN replacer.node_store_ :
       replacer' = SetEvictable(replacer, frame_id, TRUE).r
  /\ UNCHANGED <<bpm, last, track, guards, stray>>

ScenarioEvict ==
  /\ replacer.current_timestamp_ = Len(AccessSeq)
  /\ \A f \in DOMAIN replacer.node_store_ : replacer.node_store_[f].is_evictable_
  /\ ScenarioFrames \subseteq DOMAIN replacer.node_store_ \cup Range(last.evicted)
  /\ \E order \in IterOrders(DOMAIN replacer.node_store_) :
       LET res == Evict(replacer, order)
       IN  /\ res.ok
           /\ replacer' = res.r
           /\ last' = [last EXCEPT !.evicted = Append(@, res.frame_id)]
  /\ UNCHANGED <<bpm, track, guards, stray>>

ScenarioNext ==
  \/ ScenarioRecordAccess
  \/ ScenarioSetEvictable
  \/ ScenarioEvict

ScenarioSpec == ScenarioInit /\ [][ScenarioNext]_vars

(* C7, as stated: the six Evict calls of S1 return 6, 5, 4, 3, 2, 1. *)
ScenarioEvictsDescending ==
  Len(last.evicted) = 6 => last.evicted = <<6, 5, 4, 3, 2, 1>>

(* C7, amended: after the thirteen accesses every frame has two accesses   *)
(* and frame 1 the newest pair, so the six Evict calls of S1 return        *)
(* 2, 3, 4, 5, 6 and then 1; at every point the frames evicted so far are  *)
(* the start of that sequence.                                             *)
ScenarioEvictsOldestPairFirst ==
  /\ Len(last.evicted) <= 6
  /\ last.evicted = SubSeq(<<2, 3, 4, 5, 6, 1>>, 1, Len(last.evicted))

(* S1 has run to its end: six frames evicted, the replacer empty. *)
ScenarioDone ==
  /\ Len(last.evicted) = 6
  /\ replacer.node_store_ = << >>
  /\ replacer.curr_size_ = 0

-----------------------------------------------------------------------------
(* The buffer pool manager under any sequence of calls. Each call runs     *)
(* under latch_ from its first line to its last, so a call is one step; a  *)
(* call made while latch_ is held for ever never starts.                   *)

PageIds == 0 .. MaxPageId

(* The page ids the calls are made with: those NewPage has returned and    *)
(* the one it returns next, a page that does not exist yet.                *)
CallIds == {page_id \in PageIds : page_id <= bpm.next_page_id_}
Frames == DOMAIN bpm.pages_
(* The orders Evict may visit node_store_ in, when the call reaches Evict. *)
EvictOrders(reaches_evict) ==
  IF reaches_evict THEN IterOrders(DOMAIN bpm.replacer_.node_store_) ELSE {<< >>}
Resident(page_id) == page_id \in DOMAIN bpm.page_table_
(* is_dirty_ of the frame the page table gives for page_id. *)
Dirty(b, page_id) == b.pages_[b.page_table_[page_id]].is_dirty_

(* Whether a NewPage or FetchPage call that got frame_id took it from the  *)
(* replacer (the free list was empty).                                     *)
TookVictim(res) == res.ok /\ bpm.free_list_ = << >>

(* track follows one page: "written" once a client holding a pin has       *)
(* written bytes into its frame, "unpinned" once UnpinPage(page, true) has *)
(* then succeeded on that frame, "evicted" once a later NewPage or         *)
(* FetchPage has taken the frame as its victim, "fetched" once FetchPage   *)
(* of the page has then returned a frame (got). Another write starts over, *)
(* a DeletePage of the page ends it, and so does the first call after the  *)
(* fetch.                                                                  *)
Tracking == track.phase \in {"written", "unpinned", "evicted"}

TrackVictim(res) ==
  IF track.phase = "unpinned" /\ res.frame_id = track.frame
    THEN [track EXCEPT !.phase = "evicted"]
  ELSE IF track.phase = "written" /\ res.frame_id = track.frame THEN NoTrack
  ELSE track

TrackFetch(page_id, res) ==
  IF ~Tracking THEN NoTrack
  ELSE IF track.phase = "evicted" /\ page_id = track.page_id /\ res.ok
    THEN [track EXCEPT !.phase = "fetched", !.got = res.frame_id]
  ELSE IF ~Resident(page_id) /\ TookVictim(res) THEN TrackVictim(res)
  ELSE track

TrackNew(res) ==
  IF ~Tracking THEN NoTrack
  ELSE IF TookVictim(res) THEN TrackVictim(res)
  ELSE track

TrackUnpin(page_id, is_dirty, res) ==
  IF ~Tracking THEN NoTrack
  ELSE IF track.phase = "written" /\ page_id = track.page_id /\ is_dirty /\ res.ret
          /\ bpm.page_table_[page_id] = track.frame
    THEN [track EXCEPT !.phase = "unpinned"]
  ELSE track

TrackDelete(page_id, res) ==
  IF ~Tracking THEN NoTrack
  ELSE IF page_id = track.page_id /\ res.b # bpm THEN NoTrack
  ELSE track

TrackFlush == IF Tracking THEN track ELSE NoTrack

(* stray after a FetchPage of page_id with result res. *)
Strays(page_id, res) == stray \/ (res.ok /\ page_id >= bpm.next_page_id_)

(* last after a call with result res: the call, when it changed the      *)
(* manager; a call that changed nothing leaves no trace.                   *)
Called(res, call) == IF res.b = bpm THEN last ELSE call

Init ==
  /\ \E pool_size \in 1 .. MaxPoolSize, replacer_k \in 1 .. MaxK :
       bpm = NewBufferPoolManager(pool_size, replacer_k)
  /\ replacer = NewReplacer(0, 1)
  /\ last = NoCall
  /\ track = NoTrack
  /\ guards = NoGuards
  /\ stray = FALSE

CallNewPage ==
  /\ bpm.latch_ = "free"
  /\ \E order \in EvictOrders(bpm.free_list_ = << >>) :
       LET res == NewPage(bpm, order)
       IN  /\ res.ok => /\ bpm.next_page_id_ <= MaxPageId
                        /\ bpm.replacer_.current_timestamp_ < MaxTimestamp
           /\ bpm' = res.b
           /\ track' = TrackNew(res)
           /\ last' = Called(res, [ op |-> "NewPage", frame_id |-> res.frame_id,
                                     victim |-> TookVictim(res) ])
  /\ UNCHANGED <<replacer, guards, stray>>

CallFetchPage ==
  /\ bpm.latch_ = "free"
  /\ \E page_id \in CallIds :
     \E order \in EvictOrders(bpm.free_list_ = << >> /\ ~Resident(page_id)) :
       LET res == FetchPage(bpm, page_id, order)
       IN  /\ res.ok => /\ bpm.replacer_.current_timestamp_ < MaxTimestamp
                        /\ Resident(page_id) =>
                             bpm.pages_[bpm.page_table_[page_id]].pin_count_ < MaxPin
           /\ bpm' = res.b
           /\ stray' = Strays(page_id, res)
           /\ track' = TrackFetch(page_id, res)
           /\ last' = Called(res, [ op |-> "FetchPage", frame_id |-> res.frame_id,
                                     victim |-> ~Resident(page_id) /\ TookVictim(res) ])
  /\ UNCHANGED <<replacer, guards>>

CallUnpinPage ==
  /\ bpm.latch_ = "free"
  /\ \E page_id \in CallIds, is_dirty \in BOOLEAN :
       LET res == UnpinPage(bpm, page_id, is_dirty)
       IN  /\ bpm' = res.b
           /\ track' = TrackUnpin(page_id, is_dirty, res)
           /\ last' = Called(res, [ op |-> "UnpinPage" ])
  /\ UNCHANGED <<replacer, guards, stray>>

CallFlushPage ==
  /\ bpm.latch_ = "free"
  /\ \E page_id \in CallIds :
       LET res == FlushPage(bpm, page_id)
       IN  /\ bpm' = res.b
           /\ last' = Called(res, [ op |-> "FlushPage",
                                     was_dirty |-> Resident(page_id) /\ Dirty(bpm, page_id) ])
  /\ track' = TrackFlush
  /\ UNCHANGED <<replacer, guards, stray>>

CallFlushAllPages ==
  /\ bpm.latch_ = "free"
  /\ \E relock \in RelockOutcomes :
       LET res == FlushAllPages(bpm, relock)
       IN  /\ bpm' = res.b
           /\ last' = Called(res, [ op |-> "FlushAllPages", ret |-> res.ret ])
  /\ track' = TrackFlush
  /\ UNCHANGED <<replacer, guards, stray>>

CallDeletePage ==
  /\ bpm.latch_ = "free"
  /\ \E page_id \in CallIds :
       LET res == DeletePage(bpm, page_id)
       IN  /\ bpm' = res.b
           /\ last' = Called(res, [ op |-> "DeletePage" ])
           /\ track' = TrackDelete(page_id, res)
  /\ UNCHANGED <<replacer, guards, stray>>

(* A client that holds a pin on a frame writes bytes, other than the zeroes *)
(* of a reset frame, into it; one write is followed at a time.             *)
WriteData ==
  /\ \E frame_id \in Frames, bytes \in 1 .. MaxData :
       /\ bpm.pages_[frame_id].pin_count_ > 0
       /\ ~Tracking
       /\ bpm' = [bpm EXCEPT !.pages_[frame_id].data_ = bytes]
       /\ track' = [ phase |-> "written", page_id |-> bpm.pages_[frame_id].page_id_,
                     frame |-> frame_id, bytes |-> bytes, got |-> -1,
                     allocated |-> bpm.pages_[frame_id].page_id_ < bpm.next_page_id_ ]
  /\ last' = [ op |-> "WriteData" ]
  /\ UNCHANGED <<replacer, guards, stray>>

Next ==
  \/ CallNewPage
  \/ CallFetchPage
  \/ CallUnpinPage
  \/ CallFlushPage
  \/ CallFlushAllPages
  \/ CallDeletePage

Spec == Init /\ [][Next]_vars

(* The calls C10 names, FlushPage, and the client's write. *)
DataNext ==
  \/ CallNewPage
  \/ CallFetchPage
  \/ CallUnpinPage
  \/ CallFlushPage
  \/ WriteData

(* The manager with the largest K, before any call. *)
DataInit ==
  /\ \E pool_size \in 1 .. MaxPoolSize :
       bpm = NewBufferPoolManager(pool_size, MaxK)
  /\ replacer = NewReplacer(0, 1)
  /\ last = NoCall
  /\ track = NoTrack
  /\ guards = NoGuards
  /\ stray = FALSE

DataSpec == DataInit /\ [][DataNext]_vars

-----------------------------------------------------------------------------
(* Properties of the buffer pool manager. *)

NodeStore == bpm.replacer_.node_store_
AllOrders == IterOrders(DOMAIN NodeStore)
Pinned(f) == bpm.pages_[f].pin_count_ > 0
MarkedEvictable(f) == f \in DOMAIN NodeStore /\ NodeStore[f].is_evictable_
MarkedNonEvictable(f) == f \in DOMAIN NodeStore /\ ~NodeStore[f].is_evictable_

(* C1: in every reachable state every frame with pin_count_ > 0 has a      *)
(* replacer node marked non-evictable, and the victim a NewPage or         *)
(* FetchPage call made in that state takes from the replacer is never a    *)
(* frame with pin_count_ > 0.                                              *)
PinnedNeverEvicted ==
  /\ \A f \in Frames : Pinned(f) => MarkedNonEvictable(f)
  /\ \A order \in AllOrders :
       LET ev == Evict(bpm.replacer_, order)
           got == TakeFrame(bpm, order)
       IN  /\ ev.ok => ~Pinned(ev.frame_id)
           /\ (bpm.free_list_ = << >> /\ got.ok) => ~Pinned(got.frame_id)

(* The last call took its frame from the replacer while another frame,    *)
(* pinned before the call and since, stayed where it was.                  *)
VictimTakenBesidePinned ==
  /\ last.op \in {"NewPage", "FetchPage"}
  /\ last.victim
  /\ \E f \in Frames \ {last.frame_id} : Pinned(f) /\ MarkedNonEvictable(f)

(* No frame can be had: the free list is empty and no node is evictable. *)
NoFrameObtainable ==
  /\ bpm.free_list_ = << >>
  /\ \A f \in DOMAIN NodeStore : ~NodeStore[f].is_evictable_

(* C9: NewPage, and FetchPage of a page that is not resident, return empty *)
(* exactly when the free list is empty and the replacer has no evictable   *)
(* frame, and a call that returns empty leaves the whole manager (page     *)
(* table, free list, frames, replacer, next page id, disk) as it was.      *)
EmptyOnlyWhenNoFrame ==
  \A order \in AllOrders :
    /\ LET res == NewPage(bpm, order)
       IN  /\ ~res.ok <=> NoFrameObtainable
           /\ ~res.ok => res.b = bpm
    /\ \A page_id \in PageIds \ DOMAIN bpm.page_table_ :
         LET res == FetchPage(bpm, page_id, order)
         IN  /\ ~res.ok <=> NoFrameObtainable
             /\ ~res.ok => res.b = bpm

(* C4: FlushAllPages, called in any reachable state, returns, and when it  *)
(* returns every resident page has been written to disk and is clean,      *)
(* with the page table and every pin count as before.                      *)
FlushAllPagesFlushesAll ==
  \A relock \in RelockOutcomes :
    LET res == FlushAllPages(bpm, relock)
    IN  /\ res.ret = "returned"
        /\ res.b.page_table_ = bpm.page_table_
        /\ \A page_id \in DOMAIN bpm.page_table_ :
             LET f == bpm.page_table_[page_id]
             IN  /\ res.b.disk[page_id] = bpm.pages_[f].data_
                 /\ ~res.b.pages_[f].is_dirty_
                 /\ res.b.pages_[f].pin_count_ = bpm.pages_[f].pin_count_

(* The victim of any NewPage or FetchPage, when dirty, is on disk under    *)
(* its old page id, with its page-table entry gone, once the frame has     *)
(* been taken.                                                             *)
DirtyVictimWrittenBeforeReuse ==
  bpm.free_list_ = << >> =>
    \A order \in AllOrders :
      LET got == TakeFrame(bpm, order)
          old == bpm.pages_[got.frame_id]
      IN  got.ok =>
            /\ old.page_id_ \notin DOMAIN got.b.page_table_
            /\ old.is_dirty_ => got.b.disk[old.page_id_] = old.data_

PoolExhausted ==
  /\ bpm.next_page_id_ = bpm.pool_size_
  /\ \A f \in Frames : bpm.pages_[f].pin_count_ = 1
  /\ \A order \in AllOrders :
       /\ ~NewPage(bpm, order).ok
       /\ ~FetchPage(bpm, bpm.next_page_id_, order).ok

(* The manager b with the pin count and dirty flag of frame_id set aside:  *)
(* what a call must leave alone when it may change only those two.         *)
ButPinAndDirty(b, frame_id) ==
  [b EXCEPT !.pages_[frame_id].pin_count_ = 0, !.pages_[frame_id].is_dirty_ = FALSE]

(* C11: UnpinPage of a page that is not resident or has pin_count_ 0       *)
(* returns false and leaves the manager as it was; otherwise it returns    *)
(* true, takes one from pin_count_ and the frame's node is evictable       *)
(* afterwards exactly when pin_count_ has reached 0, the page table, the   *)
(* free list and every other frame staying as they were. No pin_count_ is  *)
(* negative.                                                               *)
UnpinPageContract ==
  /\ \A f \in Frames : bpm.pages_[f].pin_count_ >= 0
  /\ \A page_id \in PageIds, is_dirty \in BOOLEAN :
       LET res == UnpinPage(bpm, page_id, is_dirty)
       IN  IF ~Resident(page_id) \/ bpm.pages_[bpm.page_table_[page_id]].pin_count_ = 0
             THEN ~res.ret /\ res.b = bpm
           ELSE LET f == bpm.page_table_[page_id]
                    left == bpm.pages_[f].pin_count_ - 1
                    node == res.b.replacer_.node_store_[f]
                IN  /\ res.ret
                    /\ res.b.pages_[f].pin_count_ = left
                    /\ node.is_evictable_ <=> left = 0
                    /\ [ButPinAndDirty(res.b, f) EXCEPT !.replacer_ = bpm.replacer_]
                         = ButPinAndDirty(bpm, f)
                    /\ left > 0 => res.b.replacer_ = bpm.replacer_
                    /\ left = 0 =>
                         res.b.replacer_ =
                           [bpm.replacer_ EXCEPT !.node_store_[f].is_evictable_ = TRUE,
                                                 !.curr_size_ = @ + 1]

(* UnpinPage has just brought a page's pin count to 0 and made its frame   *)
(* evictable, and another UnpinPage of that page would be refused.         *)
UnpinnedToZero ==
  /\ last.op = "UnpinPage"
  /\ \E page_id \in DOMAIN bpm.page_table_ :
       /\ bpm.pages_[bpm.page_table_[page_id]].pin_count_ = 0
       /\ MarkedEvictable(bpm.page_table_[page_id])
       /\ ~UnpinPage(bpm, page_id, TRUE).ret

(* FetchPage and UnpinPage of a resident page never clear its is_dirty_,   *)
(* and an UnpinPage(page_id, true) that succeeds sets it.                  *)
UnpinAccumulatesDirty ==
  \A page_id \in DOMAIN bpm.page_table_ :
    /\ \A is_dirty \in BOOLEAN :
         LET res == UnpinPage(bpm, page_id, is_dirty)
         IN  Dirty(res.b, page_id) <=> (Dirty(bpm, page_id) \/ (res.ret /\ is_dirty))
    /\ Dirty(FetchResident(bpm, page_id).b, page_id) <=> Dirty(bpm, page_id)

(* A step that leaves the page resident and clears its is_dirty_ is        *)
(* FlushPage of that page.                                                 *)
ClearedOnlyByFlush ==
  \A page_id \in PageIds :
    (/\ Resident(page_id)
     /\ Dirty(bpm, page_id)
     /\ page_id \in DOMAIN bpm'.page_table_
     /\ ~Dirty(bpm', page_id)) => bpm' = FlushPage(bpm, page_id).b

(* C12: while a page stays resident its is_dirty_ is OR-accumulated: once  *)
(* an UnpinPage(p, true) has succeeded it stays true across every          *)
(* FetchPage and UnpinPage of p, whatever the hint, and it becomes false   *)
(* again only through FlushPage(p).                                        *)
DirtyUntilFlushed ==
  /\ [](UnpinAccumulatesDirty)
  /\ [][ClearedOnlyByFlush]_vars

(* C12, amended: the same, as long as FetchPage has only been called with  *)
(* page ids NewPage had returned. (NewPage returning the id of a page      *)
(* FetchPage made resident before replaces that page by a clean one.)      *)
DirtyUntilFlushedOfNewPages ==
  /\ [](UnpinAccumulatesDirty)
  /\ [][~stray => ClearedOnlyByFlush]_vars

(* A FetchPage has just hit a page that an earlier UnpinPage(p, true) left *)
(* dirty, and the page is still dirty; an UnpinPage(p, false) would leave  *)
(* it so.                                                                  *)
DirtyPageFetchedAgain ==
  /\ ~stray
  /\ last.op = "FetchPage"
  /\ ~last.victim
  /\ bpm.pages_[last.frame_id].is_dirty_
  /\ bpm.pages_[last.frame_id].pin_count_ = 1
  /\ LET page_id == bpm.pages_[last.frame_id].page_id_
     IN  Dirty(UnpinPage(bpm, page_id, FALSE).b, page_id)

(* C13: DeletePage of a page that is not resident returns true and changes *)
(* nothing; of a resident page with pin_count_ > 0 it returns false and    *)
(* changes nothing; of any other page it returns true, and afterwards the  *)
(* page has no page-table entry, its frame has page id INVALID_PAGE_ID, is *)
(* not dirty, is on the free list, and has no replacer node.               *)
DeletePageContract ==
  \A page_id \in PageIds :
    LET res == DeletePage(bpm, page_id)
    IN  IF ~Resident(page_id) THEN res.ret /\ res.thrown = "" /\ res.b = bpm
        ELSE LET f == bpm.page_table_[page_id]
             IN  IF bpm.pages_[f].pin_count_ > 0
                   THEN ~res.ret /\ res.thrown = "" /\ res.b = bpm
                 ELSE /\ res.ret
                      /\ res.thrown = ""
                      /\ page_id \notin DOMAIN res.b.page_table_
                      /\ res.b.pages_[f].page_id_ = INVALID_PAGE_ID
                      /\ ~res.b.pages_[f].is_dirty_
                      /\ f \in Range(res.b.free_list_)
                      /\ f \notin DOMAIN res.b.replacer_.node_store_

(* DeletePage has just deleted a page, whose frame is back on the free     *)
(* list, and a page whose frame is pinned is resident, which DeletePage    *)
(* refuses.                                                                *)
PageDeleted ==
  /\ last.op = "DeletePage"
  /\ \E f \in Range(bpm.free_list_) :
       bpm.pages_[f].page_id_ = INVALID_PAGE_ID /\ f \notin DOMAIN NodeStore
  /\ \E page_id \in DOMAIN bpm.page_table_ :
       /\ bpm.pages_[bpm.page_table_[page_id]].pin_count_ > 0
       /\ ~DeletePage(bpm, page_id).ret

(* C14: FlushPage of a resident page writes the frame's bytes to disk      *)
(* under the page's id whether the page is dirty or not, clears is_dirty_  *)
(* and returns true, and nothing else changes: not the page table, the     *)
(* free list, a pin count or the replacer. FlushPage of a page that is not *)
(* resident returns false and changes nothing. A second FlushPage right    *)
(* after the first leaves the manager and the disk as the first left them. *)
FlushPageContract ==
  \A page_id \in PageIds :
    LET res == FlushPage(bpm, page_id)
        again == FlushPage(res.b, page_id)
    IN  /\ IF ~Resident(page_id) THEN ~res.ret /\ res.b = bpm
           ELSE LET f == bpm.page_table_[page_id]
                IN  /\ res.ret
                    /\ res.b.disk[page_id] = bpm.pages_[f].data_
                    /\ ~res.b.pages_[f].is_dirty_
                    /\ [res.b EXCEPT !.disk[page_id] = bpm.disk[page_id],
                                     !.pages_[f].is_dirty_ = bpm.pages_[f].is_dirty_] = bpm
        /\ again.ret = res.ret
        /\ again.b = res.b

(* FlushPage has just written the bytes of a pinned page that was not      *)
(* dirty: bytes a client wrote that the disk did not hold before.          *)
CleanPageFlushed ==
  /\ last.op = "FlushPage"
  /\ ~last.was_dirty
  /\ track.phase = "written"
  /\ Resident(track.page_id)
  /\ bpm.page_table_[track.page_id] = track.frame
  /\ bpm.pages_[track.frame].data_ = track.bytes
  /\ bpm.disk[track.page_id] = track.bytes
  /\ ~bpm.pages_[track.frame].is_dirty_
  /\ bpm.pages_[track.frame].pin_count_ > 0

(* C16: for every page-table entry (p, f), frame f holds page p and is not *)
(* on the free list.                                                       *)
PageTableMatchesFrames ==
  \A page_id \in DOMAIN bpm.page_table_ :
    LET f == bpm.page_table_[page_id]
    IN  /\ f \in Frames
        /\ bpm.pages_[f].page_id_ = page_id
        /\ f \notin Range(bpm.free_list_)

(* A NewPage or FetchPage has just put a page into a frame it took from    *)
(* the replacer, beside another resident page.                             *)
VictimFrameRemapped ==
  /\ last.op \in {"NewPage", "FetchPage"}
  /\ last.victim
  /\ bpm.pages_[last.frame_id].page_id_ \in DOMAIN bpm.page_table_
  /\ bpm.page_table_[bpm.pages_[last.frame_id].page_id_] = last.frame_id
  /\ Cardinality(DOMAIN bpm.page_table_) = 2

(* The page-table entries that give frame f, and the places of f on the    *)
(* free list.                                                              *)
Entries(f) == {page_id \in DOMAIN bpm.page_table_ : bpm.page_table_[page_id] = f}
OnFreeList(f) == {i \in DOMAIN bpm.free_list_ : bpm.free_list_[i] = f}

(* C19: after any sequence of NewPage, FetchPage of any page id, returned  *)
(* by NewPage or not, UnpinPage, FlushPage and DeletePage, the frames are  *)
(* partitioned between the free list and the page table: each frame is on *)
(* the free list once or the frame of one entry, never both and never      *)
(* neither, and the two together have pool_size_ members.                  *)
NoFrameLeaked ==
  /\ \A f \in Frames : Cardinality(Entries(f)) + Cardinality(OnFreeList(f)) = 1
  /\ Len(bpm.free_list_) + Cardinality(DOMAIN bpm.page_table_) = bpm.pool_size_

(* C19, amended: the same as long as FetchPage has only been called with   *)
(* page ids NewPage had returned. (When NewPage returns the id of a page   *)
(* that FetchPage made resident before, the entry of that page is          *)
(* overwritten and its frame is in neither.)                               *)
NoFrameLeakedOfNewPages == ~stray => NoFrameLeaked

(* With no FetchPage of a page NewPage had not returned, DeletePage has    *)
(* just put one frame back on the free list while the other holds a        *)
(* pinned page.                                                            *)
FrameFreedBesideResident ==
  /\ ~stray
  /\ last.op = "DeletePage"
  /\ Len(bpm.free_list_) = 1
  /\ \E page_id \in DOMAIN bpm.page_table_ :
       bpm.pages_[bpm.page_table_[page_id]].pin_count_ = 1

(* The resident pages whose frame has pin_count_ 0. *)
Unpinned == {page_id \in DOMAIN bpm.page_table_ :
               bpm.pages_[bpm.page_table_[page_id]].pin_count_ = 0}

(* C20: every resident frame with pin_count_ 0 has a node marked           *)
(* evictable, and a frame on the free list has no node; hence Size() of    *)
(* the replacer is the number of resident pages with pin_count_ 0, and the *)
(* Remove that DeletePage calls never throws.                              *)
UnpinnedFramesEvictable ==
  /\ \A page_id \in Unpinned : MarkedEvictable(bpm.page_table_[page_id])
  /\ \A f \in Range(bpm.free_list_) : f \notin DOMAIN NodeStore
  /\ Size(bpm.replacer_) = Cardinality(Unpinned)
  /\ \A page_id \in PageIds : DeletePage(bpm, page_id).thrown = ""

(* The frames that hold a page, in the page table or not, with             *)
(* pin_count_ 0.                                                           *)
UnpinnedFrames == {f \in Frames \ Range(bpm.free_list_) : bpm.pages_[f].pin_count_ = 0}

(* C20, amended: the same, with Size() the number of frames off the free   *)
(* list with pin_count_ 0, which is the number of resident pages with      *)
(* pin_count_ 0 as long as FetchPage has only been called with page ids    *)
(* NewPage had returned.                                                   *)
UnpinnedFramesEvictableOfNewPages ==
  /\ \A page_id \in Unpinned : MarkedEvictable(bpm.page_table_[page_id])
  /\ \A f \in Range(bpm.free_list_) : f \notin DOMAIN NodeStore
  /\ Size(bpm.replacer_) = Cardinality(UnpinnedFrames)
  /\ ~stray => Size(bpm.replacer_) = Cardinality(Unpinned)
  /\ \A page_id \in PageIds : DeletePage(bpm, page_id).thrown = ""

(* With no FetchPage of a page NewPage had not returned, UnpinPage has     *)
(* just made the second of two resident pages evictable, and DeletePage of *)
(* either would remove its node.                                           *)
BothPagesEvictable ==
  /\ ~stray
  /\ last.op = "UnpinPage"
  /\ Cardinality(Unpinned) = 2
  /\ Size(bpm.replacer_) = 2
  /\ \A page_id \in Unpinned :
       /\ DeletePage(bpm, page_id).ret
       /\ Size(DeletePage(bpm, page_id).b.replacer_) = 1

-----------------------------------------------------------------------------
(* Threads that use the manager through page guards. Each thread has a     *)
(* guard (guard_, of the kind its last call returned) and a second guard   *)
(* of the same kind (other) to move into; pc is "ready", or the guarded    *)
(* call in which the thread waits for the page latch, or "stuck".          *)

Threads == 1 .. NumThreads

NewThread ==
  [ pc |-> "ready", kind |-> "basic", guard_ |-> BasicPageGuard,
    other |-> BasicPageGuard, page |-> nullptr ]

Owned(t) == {frame_id \in Frames : Owns(bpm, frame_id, t)}

GuardCall(op, t) ==
  [ op |-> op, t |-> t, from |-> guards[t].guard_, owned |-> Owned(t),
    frame_id |-> -1 ]

GuardInit ==
  /\ bpm = NewBufferPoolManager(GuardPoolSize, MaxK)
  /\ replacer = NewReplacer(0, 1)
  /\ last = NoCall
  /\ track = NoTrack
  /\ guards = [t \in Threads |-> NewThread]
  /\ stray = FALSE

(* last is the call that has just returned a read or write guard, or moved *)
(* or dropped a live guard: its thread, the guard it was called on (from)  *)
(* and the frames whose latch the thread owned before it.                  *)

(* The thread has the guard g of the given kind back from a call. *)
Returned(t, kind, g) ==
  [guards EXCEPT ![t] = [@ EXCEPT !.pc = "ready", !.kind = kind, !.guard_ = g,
                                  !.other = BasicPageGuard, !.page = nullptr]]

(* The thread waits for the latch of the frame, inside the call. *)
Latching(t, call, frame_id) ==
  [guards EXCEPT ![t] = [@ EXCEPT !.pc = call, !.page = <<frame_id>>]]

Idle(t) ==
  /\ guards[t].pc = "ready"
  /\ IsEmpty(guards[t].guard_)
  /\ IsEmpty(guards[t].other)

(* The manager without the return of latch_ at the end of a call. *)
LatchKept(b) == [b EXCEPT !.latch_ = "held"]

(* The manager as a call that ran under latch_ leaves it: the lock_guard   *)
(* gives latch_ back when FetchPage returns, before FetchPageRead and      *)
(* FetchPageWrite go on to the page latch.                                 *)
Unlocked(b) == [b EXCEPT !.latch_ = "free"]

FetchWithin(page_id, res) ==
  res.ok => /\ bpm.replacer_.current_timestamp_ < MaxTimestamp
            /\ Resident(page_id) =>
                 bpm.pages_[bpm.page_table_[page_id]].pin_count_ < MaxPin

ThreadNewPageGuarded(t) ==
  /\ Idle(t)
  /\ bpm.latch_ = "free"
  /\ \E order \in EvictOrders(bpm.free_list_ = << >>) :
       LET res == NewPage(bpm, order)
       IN  /\ res.ok => /\ bpm.next_page_id_ <= MaxPageId
                        /\ bpm.replacer_.current_timestamp_ < MaxTimestamp
           /\ bpm' = res.b
           /\ guards' = Returned(t, "basic", IF res.ok THEN BasicPageGuardOf(res.frame_id)
                                                       ELSE BasicPageGuard)
           /\ last' = NoCall
  /\ UNCHANGED <<replacer, track, stray>>

ThreadFetchPageBasic(t) ==
  /\ Idle(t)
  /\ bpm.latch_ = "free"
  /\ \E page_id \in CallIds :
     \E order \in EvictOrders(bpm.free_list_ = << >> /\ ~Resident(page_id)) :
       LET res == FetchPage(bpm, page_id, order)
       IN  /\ FetchWithin(page_id, res)
           /\ bpm' = Unlocked(res.b)
           /\ stray' = Strays(page_id, res)
           /\ guards' = Returned(t, "basic", IF res.ok THEN BasicPageGuardOf(res.frame_id)
                                                       ELSE BasicPageGuard)
           /\ last' = NoCall
  /\ UNCHANGED <<replacer, track>>

(* FetchPageRead and FetchPageWrite up to the latch: FetchPage, and the    *)
(* return of an empty guard when it fails.                                 *)
ThreadFetchPageRead(t) ==
  /\ Idle(t)
  /\ bpm.latch_ = "free"
  /\ \E page_id \in CallIds :
     \E order \in EvictOrders(bpm.free_list_ = << >> /\ ~Resident(page_id)) :
       LET res == FetchPage(bpm, page_id, order)
       IN  /\ FetchWithin(page_id, res)
           /\ bpm' = Unlocked(res.b)
           /\ stray' = Strays(page_id, res)
           /\ guards' = IF res.ok THEN Latching(t, "FetchPageRead", res.frame_id)
                        ELSE Returned(t, "read", BasicPageGuard)
           /\ last' = IF res.ok THEN NoCall
                      ELSE [ GuardCall("FetchPageRead", t) EXCEPT !.from = BasicPageGuard ]
  /\ UNCHANGED <<replacer, track>>

ThreadFetchPageWrite(t) ==
  /\ Idle(t)
  /\ bpm.latch_ = "free"
  /\ \E page_id \in CallIds :
     \E order \in EvictOrders(bpm.free_list_ = << >> /\ ~Resident(page_id)) :
       LET res == FetchPage(bpm, page_id, order)
       IN  /\ FetchWithin(page_id, res)
           /\ bpm' = Unlocked(res.b)
           /\ stray' = Strays(page_id, res)
           /\ guards' = IF res.ok THEN Latching(t, "FetchPageWrite", res.frame_id)
                        ELSE Returned(t, "write", BasicPageGuard)
           /\ last' = IF res.ok THEN NoCall
                      ELSE [ GuardCall("FetchPageWrite", t) EXCEPT !.from = BasicPageGuard ]
  /\ UNCHANGED <<replacer, track>>

(* UpgradeRead and UpgradeWrite up to the latch: an empty guard returns an *)
(* empty guard at once.                                                    *)
ThreadUpgradeRead(t) ==
  /\ guards[t].pc = "ready"
  /\ guards[t].kind = "basic"
  /\ IsEmpty(guards[t].other)
  /\ guards' = IF IsEmpty(guards[t].guard_) THEN Returned(t, "read", BasicPageGuard)
               ELSE Latching(t, "UpgradeRead", guards[t].guard_.page_[1])
  /\ last' = IF IsEmpty(guards[t].guard_) THEN GuardCall("UpgradeRead", t) ELSE NoCall
  /\ UNCHANGED <<replacer, bpm, track, stray>>

ThreadUpgradeWrite(t) ==
  /\ guards[t].pc = "ready"
  /\ guards[t].kind = "basic"
  /\ IsEmpty(guards[t].other)
  /\ guards' = IF IsEmpty(guards[t].guard_) THEN Returned(t, "write", BasicPageGuard)
               ELSE Latching(t, "UpgradeWrite", guards[t].guard_.page_[1])
  /\ last' = IF IsEmpty(guards[t].guard_) THEN GuardCall("UpgradeWrite", t) ELSE NoCall
  /\ UNCHANGED <<replacer, bpm, track, stray>>

(* The rest of FetchPageRead and UpgradeRead: RLatch, then the guard       *)
(* ReadPageGuard{bpm, page} is returned, the basic guard nulled.           *)
ThreadRLatch(t) ==
  /\ guards[t].pc \in {"FetchPageRead", "UpgradeRead"}
  /\ LET frame_id == guards[t].page[1]
         done == /\ bpm' = RLatch(bpm, frame_id, t)
                 /\ guards' = Returned(t, "read", ReadPageGuardOf(frame_id))
                 /\ last' = [ GuardCall(guards[t].pc, t) EXCEPT !.frame_id = frame_id ]
     IN  IF Owns(bpm, frame_id, t)
           THEN \E outcome \in RelatchOutcomes :
                  IF outcome = "acquired" THEN done
                  ELSE /\ guards' = [guards EXCEPT ![t].pc = "stuck"]
                       /\ UNCHANGED <<bpm, last>>
         ELSE CanRLatch(bpm, frame_id) /\ done
  /\ UNCHANGED <<replacer, track, stray>>

(* The rest of FetchPageWrite and UpgradeWrite. *)
ThreadWLatch(t) ==
  /\ guards[t].pc \in {"FetchPageWrite", "UpgradeWrite"}
  /\ LET frame_id == guards[t].page[1]
         done == /\ bpm' = WLatch(bpm, frame_id, t)
                 /\ guards' = Returned(t, "write", WritePageGuardOf(frame_id))
                 /\ last' = [ GuardCall(guards[t].pc, t) EXCEPT !.frame_id = frame_id ]
     IN  IF Owns(bpm, frame_id, t)
           THEN \E outcome \in RelatchOutcomes :
                  IF outcome = "acquired" THEN done
                  ELSE /\ guards' = [guards EXCEPT ![t].pc = "stuck"]
                       /\ UNCHANGED <<bpm, last>>
         ELSE CanWLatch(bpm, frame_id) /\ done
  /\ UNCHANGED <<replacer, track, stray>>

(* guard_.Drop(). *)
ThreadDrop(t) ==
  /\ guards[t].pc = "ready"
  /\ bpm.latch_ = "free"
  /\ LET res == Drop(guards[t].kind, bpm, guards[t].guard_, t)
     IN  /\ bpm' = res.b
         /\ guards' = [guards EXCEPT ![t].guard_ = res.g]
  /\ last' = IF IsEmpty(guards[t].guard_) THEN NoCall ELSE GuardCall("Drop", t)
  /\ UNCHANGED <<replacer, track, stray>>

(* other.Drop(). *)
ThreadDropOther(t) ==
  /\ guards[t].pc = "ready"
  /\ bpm.latch_ = "free"
  /\ LET res == Drop(guards[t].kind, bpm, guards[t].other, t)
     IN  /\ bpm' = res.b
         /\ guards' = [guards EXCEPT ![t].other = res.g]
  /\ last' = NoCall
  /\ UNCHANGED <<replacer, track, stray>>

(* A new guard, other, is move-constructed from guard_. *)
ThreadMoveConstruct(t) ==
  /\ guards[t].pc = "ready"
  /\ IsEmpty(guards[t].other)
  /\ LET res == MoveConstruct(guards[t].kind, guards[t].guard_)
     IN  guards' = [guards EXCEPT ![t].other = res.this, ![t].guard_ = res.that]
  /\ last' = IF IsEmpty(guards[t].guard_) THEN NoCall ELSE GuardCall("MoveConstruct", t)
  /\ UNCHANGED <<replacer, bpm, track, stray>>

(* other = std::move(guard_). *)
ThreadMoveAssign(t) ==
  /\ guards[t].pc = "ready"
  /\ bpm.latch_ = "free"
  /\ LET res == MoveAssign(guards[t].kind, bpm, guards[t].other, guards[t].guard_, t)
     IN  /\ bpm' = res.b
         /\ guards' = [guards EXCEPT ![t].other = res.this, ![t].guard_ = res.that]
  /\ last' = IF IsEmpty(guards[t].guard_) THEN NoCall ELSE GuardCall("MoveAssign", t)
  /\ UNCHANGED <<replacer, track, stray>>

GuardNext ==
  \E t \in Threads :
    \/ ThreadNewPageGuarded(t)
    \/ ThreadFetchPageBasic(t)
    \/ ThreadFetchPageRead(t)
    \/ ThreadFetchPageWrite(t)
    \/ ThreadUpgradeRead(t)
    \/ ThreadUpgradeWrite(t)
    \/ ThreadRLatch(t)
    \/ ThreadWLatch(t)
    \/ ThreadDrop(t)
    \/ ThreadDropOther(t)
    \/ ThreadMoveConstruct(t)
    \/ ThreadMoveAssign(t)

GuardSpec == GuardInit /\ [][GuardNext]_vars


-----------------------------------------------------------------------------
(* Properties of the page guards. *)

(* C2: the guard a FetchPageRead or FetchPageWrite returns for a page that *)
(* could be fetched is live: it points to the manager and to the page's    *)
(* frame, and its thread owns the page's latch.                            *)
FetchedGuardOwnsPinAndLatch ==
  (last.op \in {"FetchPageRead", "FetchPageWrite"} /\ last.frame_id # -1) =>
    /\ guards[last.t].guard_ = BasicPageGuardOf(last.frame_id)
    /\ Owns(bpm, last.frame_id, last.t)

(* C3: after a live guard has been moved, by construction or assignment,   *)
(* the destination holds what the source held and the source is empty; the *)
(* thread owns the latches it owned.                                       *)
MoveTransfersOwnership ==
  last.op \in {"MoveConstruct", "MoveAssign"} =>
    /\ guards[last.t].other = last.from
    /\ IsEmpty(guards[last.t].guard_)
    /\ last.owned \subseteq Owned(last.t)

(* C8: UpgradeRead and UpgradeWrite of a live basic guard return a guard   *)
(* that points to the same page, its thread owning the page's latch; of an *)
(* empty guard they return an empty guard and latch nothing.               *)
UpgradeTransfersPin ==
  last.op \in {"UpgradeRead", "UpgradeWrite"} =>
    IF IsEmpty(last.from)
      THEN /\ IsEmpty(guards[last.t].guard_)
           /\ Owned(last.t) = last.owned
    ELSE /\ guards[last.t].guard_ = last.from
         /\ Owns(bpm, last.from.page_[1], last.t)

(* C15: for a live basic guard, one Drop or any number of them, the last   *)
(* being the destructor's, or a move assignment over the guard, leave the  *)
(* manager as one UnpinPage of the guard's page with the guard's dirty     *)
(* flag does. Drop of an empty guard of any variant changes neither the    *)
(* guard nor the manager, so it releases no latch.                         *)
DropUnpinsOnce ==
  \A t \in Threads :
    \A g \in {guards[t].guard_, guards[t].other, BasicPageGuard} :
      IF IsEmpty(g)
        THEN \A kind \in {"basic", "read", "write"} :
               Drop(kind, bpm, g, t) = [ g |-> g, b |-> bpm ]
      ELSE guards[t].kind = "basic" =>
        LET once == UnpinPage(bpm, bpm.pages_[g.page_[1]].page_id_, g.is_dirty_).b
            first == BasicDrop(bpm, g)
            second == BasicDrop(first.b, first.g)
            third == BasicDrop(second.b, second.g)
        IN  /\ first.b = once
            /\ second.b = once
            /\ third.b = once
            /\ IsEmpty(first.g)
            /\ \A that \in {guards[t].guard_, guards[t].other, BasicPageGuard} \ {g} :
                 LET assigned == BasicMoveAssign(bpm, g, that)
                 IN  /\ assigned.b = once
                     /\ assigned.this.page_ = that.page_

(* A thread has just dropped a live basic guard of a page that another     *)
(* thread holds a live basic guard of as well: of the two pins one is      *)
(* left, and the thread's guard is empty, so its destructor unpins nothing.*)
OneOfTwoPinsDropped ==
  /\ last.op = "Drop"
  /\ ~IsEmpty(last.from)
  /\ IsEmpty(guards[last.t].guard_)
  /\ bpm.pages_[last.from.page_[1]].pin_count_ = 1
  /\ Drop("basic", bpm, guards[last.t].guard_, last.t).b = bpm
  /\ \E t \in Threads \ {last.t} :
       /\ guards[t].kind = "basic"
       /\ guards[t].guard_ = last.from

(* The frame a thread waits for the latch of, inside FetchPageRead or      *)
(* FetchPageWrite.                                                         *)
Waits(t) == guards[t].pc \in {"FetchPageRead", "FetchPageWrite"}
Blocked(t) ==
  /\ Waits(t)
  /\ IF guards[t].pc = "FetchPageRead" THEN ~CanRLatch(bpm, guards[t].page[1])
     ELSE ~CanWLatch(bpm, guards[t].page[1])

====
